---- MODULE Spec2Model ----
(***************************************************************************)
(* Open JTalk output module of Speech Dispatcher                           *)
(* (src/modules/openjtalk.c): voice file resolution, the synchronous speak *)
(* request (engine subprocess, fixed-offset WAV extraction, playback       *)
(* hand-off) and the pause/stop entry points.                              *)
(***************************************************************************)
EXTENDS Integers, Sequences, FiniteSets, TLC

(* ---------------------------------------------------------------------- *)
(* Bounds and input domains                                                *)
(* ---------------------------------------------------------------------- *)

\* largest number of VoiceFileSearchPath lines in the configuration
MaxTemplates == 2

NULL == "NULL"
\* a NULL openjtalk_htsvoice_path; a path is a sequence of string pieces
NoPath == << >>

VOICE == "$VOICE"
TA == <<"/a/", VOICE, ".htsvoice">>
TB == <<"/b/", VOICE, "/", VOICE, ".htsvoice">>
Templates == {TA, TB}

Languages == {"ja", "en"}
\* SPD_MALE1, SPD_FEMALE1
VoiceTypes == {1, 2}
\* msg_settings_old.voice_type before the first request (SPD_UNSPECIFIED)
UnspecifiedVoiceType == -1
\* "mei" is a registered voice, "zz" is not
Names == {"mei", "zz"}

\* the exit statuses of the engine reported by pclose
Statuses == {0, 2, -1}
\* values of the header fields of the engine's output file
BitsValues == {12, 16}
ChannelValues == {0, 1, 2}
RateValues == {48000}
DataLengths == {6, 400}
\* number of bytes present in the file from offset WAV_START_SAMPLES on
AvailBytes == {3, 6, 400}
\* what a division by zero yields on a build where it does not trap
UBQuotients == {0, 1}

WAV_START_BITS_PER_SAMPLE == 34
WAV_START_NUM_CHANNELS == 22
WAV_START_SAMPLE_RATE == 24
WAV_START_SIZE_OF_SAMPLES == 40
WAV_START_SAMPLES == 44

(* ---------------------------------------------------------------------- *)
(* State                                                                   *)
(* ---------------------------------------------------------------------- *)

VARIABLES
    pc,                      \* position of the backend process
    voice_search_paths,      \* configured templates, in configuration order
    fs,                      \* voice files that exist on disk
    msg_settings,            \* selection requested by the host
    msg_settings_old,        \* selection last applied by the module
    openjtalk_msg_voice_str, \* current voice identifier or NULL
    openjtalk_msg_language,  \* current language or NULL
    openjtalk_htsvoice_path, \* resolved voice file or NoPath
    stale,                   \* the selection changed since the path was last resolved
    tmp_files,               \* number of speechd-openjtalk-* files on disk
    engine,                  \* "none", "running" or "exited"
    cmd_voice,               \* -m argument of the command line, NoPath before
    status,                  \* result of pclose
    audio_fp,                \* "closed" or "open"
    track,                   \* AudioTrack of the request
    trace,                   \* calls made by the parameter update just done
    log,                     \* what the current request has done so far
    ret                      \* what the step just taken returned to the host

vars == <<pc, voice_search_paths, fs, msg_settings, msg_settings_old,
          openjtalk_msg_voice_str, openjtalk_msg_language,
          openjtalk_htsvoice_path, stale, tmp_files, engine,
          cmd_voice, status, audio_fp, track, trace, log, ret>>

configVars == <<voice_search_paths, fs>>
selVars == <<msg_settings, msg_settings_old, openjtalk_msg_voice_str,
             openjtalk_msg_language, openjtalk_htsvoice_path, stale>>
reqVars == <<tmp_files, engine, cmd_voice, status, audio_fp, track, trace,
            log>>

(* ---------------------------------------------------------------------- *)
(* Voice registry of the host (module_utils)                               *)
(* ---------------------------------------------------------------------- *)

\* voices registered by module_register_available_voices
RegisteredVoices == {"mei", "takumi"}

\* identifier registered for (language, voice type), NULL if there is none
module_getvoice(language, voice) ==
    IF language = "ja"
    THEN (IF voice = 1 THEN "takumi" ELSE "mei")
    ELSE NULL

module_existsvoice(name) == name \in RegisteredVoices

(* ---------------------------------------------------------------------- *)
(* Voice file resolution                                                   *)
(* ---------------------------------------------------------------------- *)

\* g_string_replace(path, "$VOICE", voice, 0): every occurrence is replaced
g_string_replace(tpl, voice) ==
    [i \in 1..Len(tpl) |-> IF tpl[i] = VOICE THEN voice ELSE tpl[i]]

g_file_test(path, files) == path \in files

\* files a template can name
CandidateFiles ==
    {g_string_replace(t, v) : t \in Templates, v \in RegisteredVoices}

\* file systems the model starts from
FileSystems ==
    { {},
      {g_string_replace(TA, "mei")},
      {g_string_replace(TA, "mei"), g_string_replace(TB, "mei"),
       g_string_replace(TB, "takumi")} }

\* a loop that forgets its return and so keeps the last match
RECURSIVE SearchFrom_keepsLast(_, _, _, _)
SearchFrom_keepsLast(i, paths, voice, files) ==
    IF i > Len(paths) THEN NoPath
    ELSE LET later == SearchFrom_keepsLast(i + 1, paths, voice, files)
         IN  IF later # NoPath THEN later
             ELSE IF g_file_test(g_string_replace(paths[i], voice), files)
                  THEN g_string_replace(paths[i], voice)
                  ELSE NoPath

\* the for loop of update_htsvoice_path, from index i on
RECURSIVE SearchFrom(_, _, _, _)
SearchFrom(i, paths, voice, files) ==
    IF i > Len(paths) THEN NoPath
    ELSE IF g_file_test(g_string_replace(paths[i], voice), files)
         THEN g_string_replace(paths[i], voice)
         ELSE SearchFrom(i + 1, paths, voice, files)

update_htsvoice_path(voice, paths, files) ==
    IF voice = NULL THEN NoPath ELSE SearchFrom(1, paths, voice, files)

\* the substitutions and existence tests the loop performs from index i on
RECURSIVE ProbesFrom(_, _, _, _)
ProbesFrom(i, paths, voice, files) ==
    IF i > Len(paths) THEN << >>
    ELSE <<"g_string_replace", "g_file_test">> \o
         (IF g_file_test(g_string_replace(paths[i], voice), files)
          THEN << >>
          ELSE ProbesFrom(i + 1, paths, voice, files))

\* what a call of update_htsvoice_path does, in order
Probes(voice, paths, files) ==
    <<"update_htsvoice_path">> \o
    (IF voice = NULL THEN << >> ELSE ProbesFrom(1, paths, voice, files))

(* ---------------------------------------------------------------------- *)
(* Setters of the selection.  g is the module's global state:             *)
(* [voice_str, language, path, resolved, crashed, trace]; sel is           *)
(* msg_settings; ndebug tells whether the build compiles assert() out;     *)
(* trace lists the calls made, for the log of the request.                 *)
(* ---------------------------------------------------------------------- *)

Globals ==
    [voice_str    |-> openjtalk_msg_voice_str,
     language     |-> openjtalk_msg_language,
     path         |-> openjtalk_htsvoice_path,
     resolved     |-> FALSE,
     crashed      |-> FALSE,
     trace        |-> << >>]

\* a setter that returns early when the lookup finds no voice
openjtalk_set_voice_keepsPath(g, sel, voice, ndebug, paths, files) ==
    IF g.crashed THEN g
    ELSE IF g.language = NULL /\ ~ndebug
    THEN [g EXCEPT !.crashed = TRUE,
                   !.trace = @ \o <<"set_voice", "assert_failed">>]
    ELSE LET str == module_getvoice(g.language, voice)
         IN  IF str = NULL
             THEN [g EXCEPT !.voice_str = str,
                            !.resolved = TRUE,
                            !.trace = @ \o <<"set_voice", "module_getvoice">>]
             ELSE [g EXCEPT !.voice_str = str,
                            !.path = update_htsvoice_path(str, paths, files),
                            !.resolved = TRUE,
                            !.trace = @ \o <<"set_voice", "module_getvoice">>
                                        \o Probes(str, paths, files)]

openjtalk_set_voice(g, sel, voice, ndebug, paths, files) ==
    IF g.crashed THEN g
    ELSE IF g.language = NULL /\ ~ndebug
    THEN [g EXCEPT !.crashed = TRUE,
                   !.trace = @ \o <<"set_voice", "assert_failed">>]
    ELSE LET str == module_getvoice(g.language, voice)
         IN  [g EXCEPT !.voice_str = str,
                       !.path = update_htsvoice_path(str, paths, files),
                       !.resolved = TRUE,
                       !.trace = @ \o <<"set_voice", "module_getvoice">>
                                   \o Probes(str, paths, files)]

openjtalk_set_language(g, sel, lang, ndebug, paths, files) ==
    IF g.crashed THEN g
    ELSE openjtalk_set_voice([g EXCEPT !.language = lang,
                                       !.trace = Append(@, "set_language")],
                             sel, sel.voice_type, ndebug, paths, files)

\* a setter that stores the voice name and leaves the voice file as it is
openjtalk_set_synthesis_voice_keepsPath(g, sel, name, ndebug, paths, files) ==
    IF g.crashed THEN g
    ELSE IF sel.name = NULL /\ ~ndebug
    THEN [g EXCEPT !.crashed = TRUE,
                   !.trace = @ \o <<"set_synthesis_voice", "assert_failed">>]
    ELSE IF module_existsvoice(sel.name)
    THEN [g EXCEPT !.voice_str = sel.name,
                   !.resolved = TRUE,
                   !.trace = @ \o <<"set_synthesis_voice", "module_existsvoice">>
                               \o Probes(sel.name, paths, files)]
    ELSE [g EXCEPT !.trace = @ \o <<"set_synthesis_voice", "module_existsvoice">>]

openjtalk_set_synthesis_voice(g, sel, name, ndebug, paths, files) ==
    IF g.crashed THEN g
    ELSE IF sel.name = NULL /\ ~ndebug
    THEN [g EXCEPT !.crashed = TRUE,
                   !.trace = @ \o <<"set_synthesis_voice", "assert_failed">>]
    ELSE IF module_existsvoice(sel.name)
    THEN [g EXCEPT !.voice_str = sel.name,
                   !.path = update_htsvoice_path(sel.name, paths, files),
                   !.resolved = TRUE,
                   !.trace = @ \o <<"set_synthesis_voice", "module_existsvoice">>
                               \o Probes(sel.name, paths, files)]
    ELSE [g EXCEPT !.trace = @ \o <<"set_synthesis_voice", "module_existsvoice">>]

(* ---------------------------------------------------------------------- *)
(* UPDATE_STRING_PARAMETER / UPDATE_PARAMETER of the host (module_utils.h) *)
(* Each yields [old |-> the new msg_settings_old field, call |-> whether   *)
(* the setter is called].                                                  *)
(* ---------------------------------------------------------------------- *)

UPDATE_STRING_PARAMETER(old, cur) ==
    IF old = NULL \/ cur = NULL \/ old # cur
    THEN [old |-> cur, call |-> cur # NULL]
    ELSE [old |-> old, call |-> FALSE]

UPDATE_PARAMETER(old, cur) ==
    IF old # cur
    THEN [old |-> cur, call |-> TRUE]
    ELSE [old |-> old, call |-> FALSE]

\* lines 181-183: the three updates in order; yields [g, old]
ApplyParameters(g0, sel, old, ndebug, paths, files) ==
    LET ul == UPDATE_STRING_PARAMETER(old.language, sel.language)
        g1 == IF ul.call
              THEN openjtalk_set_language(g0, sel, sel.language, ndebug, paths, files)
              ELSE g0
        uv == UPDATE_PARAMETER(old.voice_type, sel.voice_type)
        g2 == IF uv.call /\ ~g1.crashed
              THEN openjtalk_set_voice(g1, sel, sel.voice_type, ndebug, paths, files)
              ELSE g1
        un == UPDATE_STRING_PARAMETER(old.name, sel.name)
        g3 == IF un.call /\ ~g2.crashed
              THEN openjtalk_set_synthesis_voice(g2, sel, sel.name, ndebug, paths, files)
              ELSE g2
    IN  [g   |-> g3,
         old |-> [language   |-> IF g0.crashed THEN old.language ELSE ul.old,
                  voice_type |-> IF g1.crashed THEN old.voice_type ELSE uv.old,
                  name       |-> IF g2.crashed THEN old.name ELSE un.old]]

(* ---------------------------------------------------------------------- *)
(* Request-local state                                                     *)
(* ---------------------------------------------------------------------- *)

\* track.samples: the state of the buffer, the size it was allocated with and
\* the number of bytes the read into it asked for
NoSamples == [state |-> "null", len |-> 0, req |-> 0]

\* AudioTrack track = { 0, 0, 0, 0, NULL }
InitTrack ==
    [bits |-> 0, num_channels |-> 0, sample_rate |-> 0, num_samples |-> 0,
     samples |-> NoSamples]

\* a log entry: what was done, and its argument (0 if it has none)
Ev(e) == [ev |-> e, arg |-> 0]
EvArg(e, a) == [ev |-> e, arg |-> a]

Count(e) == Cardinality({i \in DOMAIN log : log[i].ev = e})
Did(e) == \E i \in DOMAIN log : log[i].ev = e
\* the parameter update just done made the call e
Called(e) == \E i \in DOMAIN trace : trace[i] = e
\* every e1 in the log comes before every e2
Before(e1, e2) ==
    \A i, j \in DOMAIN log : (log[i].ev = e1 /\ log[j].ev = e2) => i < j

\* size_t as four 16-bit limbs, least significant first
ToSizeT(x) ==
    <<x % 65536, (x \div 65536) % 65536,
      IF x < 0 THEN 65535 ELSE 0, IF x < 0 THEN 65535 ELSE 0>>

\* int as two 16-bit limbs
ToInt(x) == <<x % 65536, (x \div 65536) % 65536>>

NoRet == [fn |-> "none", val |-> << >>]

(* ---------------------------------------------------------------------- *)
(* Start-up: module_load, the configuration file, module_init              *)
(* ---------------------------------------------------------------------- *)

Init ==
    /\ pc = "load"
    /\ voice_search_paths = << >>
    /\ fs \in FileSystems
    /\ msg_settings = [language |-> NULL, voice_type |-> 1, name |-> NULL]
    /\ msg_settings_old =
           [language |-> NULL, voice_type |-> UnspecifiedVoiceType, name |-> NULL]
    /\ openjtalk_msg_voice_str = NULL
    /\ openjtalk_msg_language = NULL
    /\ openjtalk_htsvoice_path = NoPath
    /\ stale = FALSE
    /\ tmp_files = 0
    /\ engine = "none"
    /\ cmd_voice = NoPath
    /\ status = 0
    /\ audio_fp = "closed"
    /\ track = InitTrack
    /\ trace = << >>
    /\ log = << >>
    /\ ret = NoRet

VoiceFileSearchPath_cb ==
    /\ pc = "load"
    /\ Len(voice_search_paths) < MaxTemplates
    /\ \E t \in Templates :
           voice_search_paths' = Append(voice_search_paths, t)
    /\ UNCHANGED <<pc, fs, selVars, reqVars, ret>>

module_init ==
    /\ pc = "load"
    /\ pc' = IF RegisteredVoices = {} THEN "init_failed" ELSE "idle"
    /\ UNCHANGED <<configVars, selVars, reqVars, ret>>

\* the host's next message: SET commands (which may change nothing), then
\* SPEAK, which calls module_speak_sync; the record of the last request ends
SetSettings ==
    /\ pc = "idle"
    /\ pc' = "speak"
    /\ log' = << >>
    /\ ret' = NoRet
    /\ \E l \in Languages \cup {NULL}, v \in VoiceTypes, n \in Names \cup {NULL} :
           msg_settings' = [language |-> l, voice_type |-> v, name |-> n]
    /\ UNCHANGED <<configVars, msg_settings_old, openjtalk_msg_voice_str,
                   openjtalk_msg_language, openjtalk_htsvoice_path,
                   stale, tmp_files, engine, cmd_voice, status,
                   audio_fp, track, trace>>

(* ---------------------------------------------------------------------- *)
(* module_speak_sync, one action per step                                  *)
(* ---------------------------------------------------------------------- *)

\* lines 178-183: the request starts and applies the changed parameters
UpdateParameters ==
    /\ pc = "speak"
    /\ \E ndebug \in BOOLEAN :
         LET r == ApplyParameters(Globals, msg_settings, msg_settings_old,
                                  ndebug, voice_search_paths, fs)
         IN  /\ msg_settings_old' = r.old
             /\ openjtalk_msg_voice_str' = r.g.voice_str
             /\ openjtalk_msg_language' = r.g.language
             /\ openjtalk_htsvoice_path' = r.g.path
             /\ stale' = IF r.g.resolved THEN FALSE
                         ELSE (stale \/ msg_settings # msg_settings_old)
             /\ pc' = IF r.g.crashed THEN "crashed" ELSE "check_voice"
             /\ trace' = r.g.trace
    /\ UNCHANGED <<configVars, msg_settings, tmp_files, engine, cmd_voice,
                   status, audio_fp, track, log>>
    /\ ret' = NoRet

\* a check that acknowledges the request and reports no begin event
CheckVoice_noBegin ==
    /\ pc = "check_voice"
    /\ IF openjtalk_htsvoice_path = NoPath
       THEN /\ log' = log \o <<Ev("no_voice"), Ev("speak_error")>>
            /\ pc' = "idle"
       ELSE /\ log' = log \o <<Ev("speak_ok"), Ev("strip_ssml")>>
            /\ pc' = "mkstemp"
    /\ trace' = << >>
    /\ UNCHANGED <<configVars, selVars, tmp_files, engine, cmd_voice, status,
                   audio_fp, track>>
    /\ ret' = NoRet

\* a check that speaks although no voice file was found
CheckVoice_ignoresNull ==
    /\ pc = "check_voice"
    /\ log' = log \o <<Ev("speak_ok"), Ev("event_begin"), Ev("strip_ssml")>>
    /\ pc' = "mkstemp"
    /\ trace' = << >>
    /\ UNCHANGED <<configVars, selVars, tmp_files, engine, cmd_voice, status,
                   audio_fp, track>>
    /\ ret' = NoRet

\* a check that acknowledges the request before looking at the voice file
CheckVoice_okFirst ==
    /\ pc = "check_voice"
    /\ IF openjtalk_htsvoice_path = NoPath
       THEN /\ log' = log \o <<Ev("speak_ok"), Ev("no_voice"), Ev("speak_error")>>
            /\ pc' = "idle"
       ELSE /\ log' = log \o <<Ev("speak_ok"), Ev("event_begin"), Ev("strip_ssml")>>
            /\ pc' = "mkstemp"
    /\ trace' = << >>
    /\ UNCHANGED <<configVars, selVars, tmp_files, engine, cmd_voice, status,
                   audio_fp, track>>
    /\ ret' = NoRet

\* lines 185-195
CheckVoice ==
    /\ pc = "check_voice"
    /\ IF openjtalk_htsvoice_path = NoPath
       THEN /\ log' = log \o <<Ev("no_voice"), Ev("speak_error")>>
            /\ pc' = "idle"
       ELSE /\ log' = log \o <<Ev("speak_ok"), Ev("event_begin"), Ev("strip_ssml")>>
            /\ pc' = "mkstemp"
    /\ trace' = << >>
    /\ UNCHANGED <<configVars, selVars, tmp_files, engine, cmd_voice, status,
                   audio_fp, track>>
    /\ ret' = NoRet

\* a creation of the temporary file whose failure leaves by TEMPLATE_FINISH
Mkstemp_failUnlinks ==
    /\ pc = "mkstemp"
    /\ \E ok \in BOOLEAN :
         IF ok
         THEN /\ tmp_files' = tmp_files + 1
              /\ log' = log \o <<Ev("mkstemp"), Ev("close_fd")>>
              /\ pc' = "asprintf"
         ELSE /\ tmp_files' = tmp_files
              /\ log' = Append(log, Ev("mkstemp_failed"))
              /\ pc' = "TEMPLATE_FINISH"
    /\ UNCHANGED <<configVars, selVars, trace, engine, cmd_voice, status,
                   audio_fp, track>>
    /\ ret' = NoRet

\* a creation of the temporary file that keeps the descriptor open
Mkstemp_keepsFd ==
    /\ pc = "mkstemp"
    /\ \E ok \in BOOLEAN :
         IF ok
         THEN /\ tmp_files' = tmp_files + 1
              /\ log' = Append(log, Ev("mkstemp"))
              /\ pc' = "asprintf"
         ELSE /\ tmp_files' = tmp_files
              /\ log' = Append(log, Ev("mkstemp_failed"))
              /\ pc' = "FINISH"
    /\ UNCHANGED <<configVars, selVars, trace, engine, cmd_voice, status,
                   audio_fp, track>>
    /\ ret' = NoRet

\* lines 197-206
Mkstemp ==
    /\ pc = "mkstemp"
    /\ \E ok \in BOOLEAN :
         IF ok
         THEN /\ tmp_files' = tmp_files + 1
              /\ log' = log \o <<Ev("mkstemp"), Ev("close_fd")>>
              /\ pc' = "asprintf"
         ELSE /\ tmp_files' = tmp_files
              /\ log' = Append(log, Ev("mkstemp_failed"))
              /\ pc' = "FINISH"
    /\ UNCHANGED <<configVars, selVars, trace, engine, cmd_voice, status, audio_fp,
                   track>>
    /\ ret' = NoRet

\* lines 208-218
Asprintf ==
    /\ pc = "asprintf"
    /\ \E ok \in BOOLEAN :
         IF ok
         THEN /\ cmd_voice' = openjtalk_htsvoice_path
              /\ log' = Append(log, Ev("asprintf"))
              /\ pc' = "popen"
         ELSE /\ cmd_voice' = cmd_voice
              /\ log' = Append(log, Ev("asprintf_failed"))
              /\ pc' = "TEMPLATE_FINISH"
    /\ UNCHANGED <<configVars, selVars, trace, tmp_files, engine, status, audio_fp,
                   track>>
    /\ ret' = NoRet

\* lines 220-225
Popen ==
    /\ pc = "popen"
    /\ \E ok \in BOOLEAN :
         IF ok
         THEN /\ engine' = "running"
              /\ log' = Append(log, Ev("popen"))
              /\ pc' = "fprintf"
         ELSE /\ engine' = engine
              /\ log' = Append(log, Ev("popen_failed"))
              /\ pc' = "TEMPLATE_FINISH"
    /\ UNCHANGED <<configVars, selVars, trace, tmp_files, cmd_voice, status,
                   audio_fp, track>>
    /\ ret' = NoRet

\* line 227
Fprintf ==
    /\ pc = "fprintf"
    /\ log' = Append(log, Ev("fprintf"))
    /\ pc' = "pclose"
    /\ UNCHANGED <<configVars, selVars, trace, tmp_files, engine, cmd_voice, status,
                   audio_fp, track>>
    /\ ret' = NoRet

\* a wait that takes every exit status for success
Pclose_ignoresStatus ==
    /\ pc = "pclose"
    /\ engine' = "exited"
    /\ \E st \in Statuses :
         /\ status' = st
         /\ log' = Append(log, EvArg("pclose", st))
         /\ pc' = "fopen"
    /\ UNCHANGED <<configVars, selVars, trace, tmp_files, cmd_voice, audio_fp,
                   track>>
    /\ ret' = NoRet

\* lines 229-234
Pclose ==
    /\ pc = "pclose"
    /\ engine' = "exited"
    /\ \E st \in Statuses :
         /\ status' = st
         /\ log' = Append(log, EvArg("pclose", st))
         /\ pc' = IF st # 0 THEN "TEMPLATE_FINISH" ELSE "fopen"
    /\ UNCHANGED <<configVars, selVars, trace, tmp_files, cmd_voice, audio_fp,
                   track>>
    /\ ret' = NoRet

\* an open whose failure leaves by the FINISH label
Fopen_skipsUnlink ==
    /\ pc = "fopen"
    /\ track' = InitTrack
    /\ \E ok \in BOOLEAN :
         IF ok
         THEN /\ audio_fp' = "open"
              /\ log' = Append(log, Ev("fopen"))
              /\ pc' = "read_bits"
         ELSE /\ audio_fp' = audio_fp
              /\ log' = Append(log, Ev("fopen_failed"))
              /\ pc' = "FINISH"
    /\ UNCHANGED <<configVars, selVars, trace, tmp_files, engine, cmd_voice, status>>
    /\ ret' = NoRet

\* lines 236-253
Fopen ==
    /\ pc = "fopen"
    /\ track' = InitTrack
    /\ \E ok \in BOOLEAN :
         IF ok
         THEN /\ audio_fp' = "open"
              /\ log' = Append(log, Ev("fopen"))
              /\ pc' = "read_bits"
         ELSE /\ audio_fp' = audio_fp
              /\ log' = Append(log, Ev("fopen_failed"))
              /\ pc' = "TEMPLATE_FINISH"
    /\ UNCHANGED <<configVars, selVars, trace, tmp_files, engine, cmd_voice, status>>
    /\ ret' = NoRet

\* lines 255-261: fread returns 1 and stores a value, or returns less
ReadBits ==
    /\ pc = "read_bits"
    /\ \/ \E b \in BitsValues :
            /\ track' = [track EXCEPT !.bits = b]
            /\ log' = log \o <<EvArg("fseek", WAV_START_BITS_PER_SAMPLE),
                               Ev("read_bits")>>
            /\ pc' = "read_num_channels"
       \/ /\ track' = track
          /\ log' = log \o <<EvArg("fseek", WAV_START_BITS_PER_SAMPLE),
                             Ev("read_bits_short")>>
          /\ pc' = "FP_FINISH"
    /\ UNCHANGED <<configVars, selVars, trace, tmp_files, engine, cmd_voice, status,
                   audio_fp>>
    /\ ret' = NoRet

\* lines 263-269
ReadNumChannels ==
    /\ pc = "read_num_channels"
    /\ \/ \E c \in ChannelValues :
            /\ track' = [track EXCEPT !.num_channels = c]
            /\ log' = log \o <<EvArg("fseek", WAV_START_NUM_CHANNELS),
                               Ev("read_num_channels")>>
            /\ pc' = "read_sample_rate"
       \/ /\ track' = track
          /\ log' = log \o <<EvArg("fseek", WAV_START_NUM_CHANNELS),
                             Ev("read_num_channels_short")>>
          /\ pc' = "FP_FINISH"
    /\ UNCHANGED <<configVars, selVars, trace, tmp_files, engine, cmd_voice, status,
                   audio_fp>>
    /\ ret' = NoRet

\* a read of the sample rate that goes on after a short read
ReadSampleRate_ignoresShort ==
    /\ pc = "read_sample_rate"
    /\ \/ \E r \in RateValues :
            /\ track' = [track EXCEPT !.sample_rate = r]
            /\ log' = log \o <<EvArg("fseek", WAV_START_SAMPLE_RATE),
                               Ev("read_sample_rate")>>
            /\ pc' = "read_num_samples"
       \/ /\ track' = track
          /\ log' = log \o <<EvArg("fseek", WAV_START_SAMPLE_RATE),
                             Ev("read_sample_rate_short")>>
          /\ pc' = "read_num_samples"
    /\ UNCHANGED <<configVars, selVars, trace, tmp_files, engine, cmd_voice, status,
                   audio_fp>>
    /\ ret' = NoRet

\* lines 271-277
ReadSampleRate ==
    /\ pc = "read_sample_rate"
    /\ \/ \E r \in RateValues :
            /\ track' = [track EXCEPT !.sample_rate = r]
            /\ log' = log \o <<EvArg("fseek", WAV_START_SAMPLE_RATE),
                               Ev("read_sample_rate")>>
            /\ pc' = "read_num_samples"
       \/ /\ track' = track
          /\ log' = log \o <<EvArg("fseek", WAV_START_SAMPLE_RATE),
                             Ev("read_sample_rate_short")>>
          /\ pc' = "FP_FINISH"
    /\ UNCHANGED <<configVars, selVars, trace, tmp_files, engine, cmd_voice, status,
                   audio_fp>>
    /\ ret' = NoRet

\* a sample count that divides by the bytes of one frame
NumSamples_byFrame(size, num_channels, bits) ==
    size \div ((num_channels * bits) \div 8)

\* line 285-286 when no divisor is zero
NumSamples(size, num_channels, bits) ==
    (size \div num_channels) \div (bits \div 8)

\* lines 279-290: the data length is read and divided; a zero divisor is
\* undefined behaviour: the process is killed, or some quotient results
ReadNumSamples ==
    /\ pc = "read_num_samples"
    /\ \/ \E d \in DataLengths :
            /\ log' = log \o <<EvArg("fseek", WAV_START_SIZE_OF_SAMPLES),
                               EvArg("read_num_samples", d)>>
            /\ IF track.num_channels = 0 \/ track.bits \div 8 = 0
               THEN \/ /\ pc' = "crashed"
                       /\ track' = [track EXCEPT !.num_samples = d]
                    \/ \E q \in UBQuotients :
                         /\ pc' = "read_samples"
                         /\ track' = [track EXCEPT !.num_samples = q]
               ELSE /\ pc' = "read_samples"
                    /\ track' = [track EXCEPT !.num_samples =
                           NumSamples(d, track.num_channels, track.bits)]
       \/ /\ track' = track
          /\ log' = log \o <<EvArg("fseek", WAV_START_SIZE_OF_SAMPLES),
                             Ev("read_num_samples_short")>>
          /\ pc' = "FP_FINISH"
    /\ UNCHANGED <<configVars, selVars, trace, tmp_files, engine, cmd_voice, status,
                   audio_fp>>
    /\ ret' = NoRet

\* line 294: the argument of malloc
MallocSize(t) == (t.num_samples * t.num_channels * t.bits) \div 8

\* lines 295-297: the number of bytes fread is asked for, size * nmemb
ReadRequest(t) == (t.bits \div 8) * (t.num_samples * t.num_channels)

\* fread(ptr, size, nmemb, fp) with avail bytes left in the file: the
\* number of complete items read
fread(size, nmemb, avail) ==
    IF size = 0 \/ nmemb = 0 THEN 0
    ELSE IF avail \div size < nmemb THEN avail \div size ELSE nmemb

\* a read of the sample block that keeps the buffer after a short read
ReadSamples_leaks ==
    /\ pc = "read_samples"
    /\ \E avail \in AvailBytes :
         LET n == track.num_samples * track.num_channels
             got == fread(track.bits \div 8, n, avail)
         IN  IF got # n
             THEN /\ track' = [track EXCEPT !.samples =
                                   [state |-> "live", len |-> MallocSize(track),
                                    req |-> ReadRequest(track)]]
                  /\ log' = log \o <<EvArg("fseek", WAV_START_SAMPLES),
                                     Ev("malloc"),
                                     Ev("read_samples_short")>>
                  /\ pc' = "FP_FINISH"
             ELSE /\ track' = [track EXCEPT !.samples =
                                   [state |-> "live", len |-> MallocSize(track),
                                    req |-> ReadRequest(track)]]
                  /\ log' = log \o <<EvArg("fseek", WAV_START_SAMPLES),
                                     Ev("malloc"),
                                     Ev("read_samples")>>
                  /\ pc' = "output"
    /\ UNCHANGED <<configVars, selVars, trace, tmp_files, engine, cmd_voice, status,
                   audio_fp>>
    /\ ret' = NoRet

\* lines 292-303
ReadSamples ==
    /\ pc = "read_samples"
    /\ \E avail \in AvailBytes :
         LET n == track.num_samples * track.num_channels
             got == fread(track.bits \div 8, n, avail)
         IN  IF got # n
             THEN /\ track' = [track EXCEPT !.samples =
                                   [state |-> "freed", len |-> MallocSize(track),
                                    req |-> ReadRequest(track)]]
                  /\ log' = log \o <<EvArg("fseek", WAV_START_SAMPLES),
                                     Ev("malloc"),
                                     Ev("read_samples_short"),
                                     Ev("free_samples")>>
                  /\ pc' = "FP_FINISH"
             ELSE /\ track' = [track EXCEPT !.samples =
                                   [state |-> "live", len |-> MallocSize(track),
                                    req |-> ReadRequest(track)]]
                  /\ log' = log \o <<EvArg("fseek", WAV_START_SAMPLES),
                                     Ev("malloc"),
                                     Ev("read_samples")>>
                  /\ pc' = "output"
    /\ UNCHANGED <<configVars, selVars, trace, tmp_files, engine, cmd_voice, status,
                   audio_fp>>
    /\ ret' = NoRet

\* lines 305-309: module_tts_output_server, then free
Output ==
    /\ pc = "output"
    /\ track' = [track EXCEPT !.samples.state = "freed"]
    /\ log' = log \o <<Ev("output"), Ev("free_samples")>>
    /\ pc' = "FP_FINISH"
    /\ UNCHANGED <<configVars, selVars, trace, tmp_files, engine, cmd_voice, status,
                   audio_fp>>
    /\ ret' = NoRet

\* lines 311-312
FP_FINISH ==
    /\ pc = "FP_FINISH"
    /\ audio_fp' = "closed"
    /\ log' = Append(log, Ev("fclose"))
    /\ pc' = "TEMPLATE_FINISH"
    /\ UNCHANGED <<configVars, selVars, trace, tmp_files, engine, cmd_voice, status,
                   track>>
    /\ ret' = NoRet

\* lines 314-315
TEMPLATE_FINISH ==
    /\ pc = "TEMPLATE_FINISH"
    /\ tmp_files' = tmp_files - 1
    /\ log' = Append(log, Ev("unlink"))
    /\ pc' = "FINISH"
    /\ UNCHANGED <<configVars, selVars, trace, engine, cmd_voice, status, audio_fp,
                   track>>
    /\ ret' = NoRet

\* an exit that returns without reporting the end of the request
FINISH_noEvent ==
    /\ pc = "FINISH"
    /\ log' = Append(log, Ev("free_plain_data"))
    /\ pc' = "idle"
    /\ engine' = "none"
    /\ cmd_voice' = NoPath
    /\ status' = 0
    /\ track' = InitTrack
    /\ UNCHANGED <<configVars, selVars, trace, tmp_files, audio_fp>>
    /\ ret' = NoRet

\* lines 317-322; the request's locals end with it
FINISH ==
    /\ pc = "FINISH"
    /\ log' = log \o <<Ev("free_plain_data"), Ev("event_end")>>
    /\ pc' = "idle"
    /\ engine' = "none"
    /\ cmd_voice' = NoPath
    /\ status' = 0
    /\ track' = InitTrack
    /\ UNCHANGED <<configVars, selVars, trace, tmp_files, audio_fp>>
    /\ ret' = NoRet

(* ---------------------------------------------------------------------- *)
(* module_pause, module_stop, module_close                                 *)
(* ---------------------------------------------------------------------- *)

\* where the host can deliver a pause or stop command: between requests,
\* while the engine runs, and during the playback hand-off
Running == pc \in {"idle", "pclose", "output"}

\* lines 324-330: return -1 from a function returning size_t
module_pause ==
    /\ Running
    /\ ret' = [fn |-> "pause", val |-> ToSizeT(-1)]
    /\ UNCHANGED <<pc, configVars, selVars, reqVars>>

\* a stop that ends the running engine
module_stop_killsEngine ==
    /\ Running
    /\ ret' = [fn |-> "stop", val |-> ToInt(0)]
    /\ engine' = IF engine = "running" THEN "exited" ELSE engine
    /\ UNCHANGED <<pc, configVars, selVars, trace, tmp_files, cmd_voice, status,
                   audio_fp, track, log>>

\* lines 332-338
module_stop ==
    /\ Running
    /\ ret' = [fn |-> "stop", val |-> ToInt(0)]
    /\ UNCHANGED <<pc, configVars, selVars, reqVars>>

\* lines 340-345
module_close ==
    /\ pc = "idle"
    /\ pc' = "closed"
    /\ ret' = [fn |-> "close", val |-> ToInt(0)]
    /\ UNCHANGED <<configVars, selVars, reqVars>>

Next ==
    \/ VoiceFileSearchPath_cb
    \/ module_init
    \/ SetSettings
    \/ UpdateParameters
    \/ CheckVoice
    \/ Mkstemp
    \/ Asprintf
    \/ Popen
    \/ Fprintf
    \/ Pclose
    \/ Fopen
    \/ ReadBits
    \/ ReadNumChannels
    \/ ReadSampleRate
    \/ ReadNumSamples
    \/ ReadSamples
    \/ Output
    \/ FP_FINISH
    \/ TEMPLATE_FINISH
    \/ FINISH
    \/ module_pause
    \/ module_stop
    \/ module_close

Spec == Init /\ [][Next]_vars

(* ---------------------------------------------------------------------- *)
(* Properties                                                              *)
(* ---------------------------------------------------------------------- *)

\* module_speak_sync is not running: it has returned, or was not yet called
Returned == pc \in {"idle", "speak", "closed"}

NonZeroExit == \E i \in DOMAIN log : log[i].ev = "pclose" /\ log[i].arg # 0

ShortReads ==
    {"read_bits_short", "read_num_channels_short", "read_sample_rate_short",
     "read_num_samples_short", "read_samples_short"}

\* the failures that follow the voice check
LaterFailures ==
    {"mkstemp_failed", "asprintf_failed", "popen_failed", "fopen_failed"}
        \cup ShortReads

FailedLater == NonZeroExit \/ \E e \in LaterFailures : Did(e)
Failed == Did("no_voice") \/ FailedLater

\* C1: a temporary file that a request created is removed exactly once
\* before the request returns, whatever the exit path, and never otherwise;
\* between requests no temporary file is left on disk.
C1_TempFileRemovedOnce ==
    /\ Count("unlink") <= 1
    /\ Did("unlink") => Did("mkstemp")
    /\ Returned => tmp_files = 0
    /\ (Returned /\ Did("mkstemp")) => Count("unlink") = 1

C1_Witness ==
    /\ pc = "idle"
    /\ Did("mkstemp")
    /\ Did("read_samples_short")
    /\ Count("unlink") = 1
    /\ tmp_files = 0

\* C2: the playback hand-off happens at most once in a request, and only
\* after the voice was resolved, the temporary file created, the engine
\* exited with status 0, the output file opened and all five reads were
\* complete; after a non-zero exit there is no hand-off.
C2_NoAudioOnFailure ==
    /\ Count("output") <= 1
    /\ Did("output") =>
         /\ openjtalk_htsvoice_path # NoPath
         /\ Did("mkstemp")
         /\ \E i \in DOMAIN log : log[i] = EvArg("pclose", 0)
         /\ Did("fopen")
         /\ \A e \in {"read_bits", "read_num_channels", "read_sample_rate",
                      "read_num_samples", "read_samples"} : Did(e)
         /\ ~Failed
    /\ NonZeroExit => ~Did("output")

C2_Witness ==
    /\ pc = "idle"
    /\ \E i \in DOMAIN log : log[i] = EvArg("pclose", 2)
    /\ Did("event_end")
    /\ ~Did("output")

\* C3: the engine is never started with a voice file that was resolved
\* before the last change of language, voice type or voice name.
C3_NoStalePath == Did("popen") => ~stale

\* the first template, in order, whose substituted path exists
FirstExisting(paths, voice, files) ==
    LET hits == {i \in 1..Len(paths) :
                    g_string_replace(paths[i], voice) \in files}
    IN  IF hits = {} THEN NoPath
        ELSE g_string_replace(
                 paths[CHOOSE i \in hits : \A j \in hits : i <= j], voice)

\* C4: the resolved voice file is the substituted path of the first
\* template, in configuration order, whose substituted path exists, and
\* none if there is no such template; an empty template list gives none;
\* the templates are kept in the order they were configured.
C4_FirstMatchInOrder ==
    /\ [](/\ openjtalk_msg_voice_str # NULL =>
               openjtalk_htsvoice_path =
                   FirstExisting(voice_search_paths, openjtalk_msg_voice_str, fs)
          /\ voice_search_paths = << >> => openjtalk_htsvoice_path = NoPath)
    /\ [][Len(voice_search_paths') > Len(voice_search_paths) =>
              SubSeq(voice_search_paths', 1, Len(voice_search_paths))
                  = voice_search_paths]_vars

C4_Witness ==
    /\ Len(voice_search_paths) = 2
    /\ openjtalk_msg_voice_str # NULL
    /\ LET p1 == g_string_replace(voice_search_paths[1], openjtalk_msg_voice_str)
           p2 == g_string_replace(voice_search_paths[2], openjtalk_msg_voice_str)
       IN  /\ p1 # p2
           /\ p1 \in fs
           /\ p2 \in fs
           /\ openjtalk_htsvoice_path = p1

\* C5: the track handed to playback has a sample buffer of exactly
\* num_samples * num_channels * (bits / 8) bytes.
C5_BufferLength ==
    pc = "output" =>
        track.samples.len =
            track.num_samples * track.num_channels * (track.bits \div 8)

\* C6: no speak request ends the backend process.
C6_NeverCrashes == pc # "crashed"

\* C7 as claimed: every failed request sends exactly one speak-error
\* acknowledgement and no speak-ok.
C7_EveryFailureIsSpeakError ==
    (Returned /\ Failed) => (Count("speak_error") = 1 /\ ~Did("speak_ok"))

\* C7, amended: a request sends at most one acknowledgement; a request with
\* an unresolved voice file sends exactly one speak-error and no speak-ok;
\* every later failure comes after the one speak-ok of the request and
\* sends no speak-error.
C7_FailureAcknowledgement ==
    /\ Count("speak_ok") + Count("speak_error") <= 1
    /\ Did("no_voice") => (Count("speak_error") = 1 /\ ~Did("speak_ok"))
    /\ FailedLater => (Count("speak_ok") = 1 /\ ~Did("speak_error"))
    /\ Did("speak_error") => Did("no_voice")

C7_Witness ==
    /\ pc = "idle"
    /\ NonZeroExit
    /\ Count("speak_ok") = 1
    /\ ~Did("speak_error")

\* C8 as claimed: every failed request reports the end-of-request event
\* before it returns.
C8_EveryFailureReportsEnd ==
    (Returned /\ Failed) => Did("event_end")

\* C8, amended: a request that fails after the voice check reports the
\* end-of-request event exactly once, as the last thing it does; a request
\* that fails because the voice file is unresolved returns after its
\* speak-error with neither a begin nor an end event.
C8_FailureReportsEnd ==
    /\ (Returned /\ FailedLater) =>
           (Count("event_end") = 1 /\ log[Len(log)].ev = "event_end")
    /\ Did("no_voice") => (~Did("event_begin") /\ ~Did("event_end"))

C8_Witness ==
    /\ pc = "idle"
    /\ Did("mkstemp_failed")
    /\ Count("event_end") = 1

\* everything but ret
programVars == <<pc, configVars, selVars, reqVars>>

\* C9: pause returns (size_t)-1 and stop returns 0 wherever they are
\* called, and neither changes the selection, the resolved voice file, the
\* position of the request, the temporary file or the engine subprocess.
C9_PauseStop ==
    /\ [](/\ ret.fn = "pause" => ret.val = <<65535, 65535, 65535, 65535>>
          /\ ret.fn = "stop" => ret.val = <<0, 0>>)
    /\ [][ret'.fn \in {"pause", "stop"} => UNCHANGED programVars]_vars

C9_Witness ==
    /\ ret.fn = "stop"
    /\ engine = "running"
    /\ pc = "pclose"
    /\ tmp_files = 1

\* what a request does once it goes on after the voice check
SynthesisEvents ==
    {"speak_ok", "event_begin", "mkstemp", "mkstemp_failed", "asprintf",
     "popen", "popen_failed", "fprintf", "pclose", "fopen", "fopen_failed",
     "fseek", "malloc", "output", "unlink", "event_end"}

\* C10: a request that finds no resolved voice file after the parameter
\* update returns at once: no temporary file, no engine, no extraction, no
\* playback hand-off.
C10_UnresolvedFailsAtOnce ==
    (openjtalk_htsvoice_path = NoPath
        /\ pc \notin {"load", "speak", "check_voice", "crashed", "closed"}) =>
    /\ pc = "idle"
    /\ \A e \in SynthesisEvents : ~Did(e)
    /\ tmp_files = 0
    /\ engine = "none"
    /\ audio_fp = "closed"

C10_Witness ==
    /\ pc = "idle"
    /\ openjtalk_htsvoice_path = NoPath
    /\ Len(log) >= 2
    /\ SubSeq(log, Len(log) - 1, Len(log)) = <<Ev("no_voice"), Ev("speak_error")>>

\* C11: a voice-type update made while no language was ever set fails
\* resolution: the process goes on, no (language, voice type) lookup is
\* made and the voice file is unresolved, so that the voice check that
\* follows ends the request with speak-error.
C11_UnsetLanguageFailsResolution ==
    (openjtalk_msg_language = NULL /\ Called("set_voice")) =>
        /\ pc # "crashed"
        /\ ~Called("module_getvoice")
        /\ openjtalk_htsvoice_path = NoPath

\* the identifier the selection sel stands for: its voice name if that is a
\* registered voice, else the voice registered for its language and type
SelectedVoice(sel) ==
    IF sel.name # NULL /\ module_existsvoice(sel.name)
    THEN sel.name
    ELSE module_getvoice(sel.language, sel.voice_type)

\* C12: whenever a request goes on to synthesis, the voice identifier in
\* use is the current voice name if that is set and registered, and else
\* the identifier registered for the current language and voice type.
C12_IdentifierFollowsSelection ==
    Did("speak_ok") => openjtalk_msg_voice_str = SelectedVoice(msg_settings)

\* C13: when the lookup by language and voice type finds no identifier,
\* update_htsvoice_path still runs and leaves no resolved voice file,
\* whatever was resolved before, and it substitutes no template and tests no
\* file.
C13_NoIdentifierNoSearch ==
    (Called("module_getvoice") /\ openjtalk_msg_voice_str = NULL) =>
        /\ openjtalk_htsvoice_path = NoPath
        /\ Called("update_htsvoice_path")
        /\ ~Called("g_string_replace")
        /\ ~Called("g_file_test")

\* the language changed to one without a voice while the name "mei", applied
\* by an earlier request and present on disk, stayed the same
C13_Witness ==
    /\ pc = "check_voice"
    /\ Called("module_getvoice")
    /\ openjtalk_msg_voice_str = NULL
    /\ msg_settings.language = "en"
    /\ msg_settings.name = "mei"
    /\ ~Called("set_synthesis_voice")
    /\ \E i \in DOMAIN voice_search_paths :
           g_string_replace(voice_search_paths[i], "mei") \in fs
    /\ openjtalk_htsvoice_path = NoPath

\* the five steps of the extraction: offset, and the log entries of a full
\* and of a short read
ExtractionSteps ==
    <<[offset |-> 34, full |-> "read_bits",         short |-> "read_bits_short"],
      [offset |-> 22, full |-> "read_num_channels", short |-> "read_num_channels_short"],
      [offset |-> 24, full |-> "read_sample_rate",  short |-> "read_sample_rate_short"],
      [offset |-> 40, full |-> "read_num_samples",  short |-> "read_num_samples_short"],
      [offset |-> 44, full |-> "read_samples",      short |-> "read_samples_short"]>>

IsSeek(e) == e.ev = "fseek"
IsRead(e) == \E k \in DOMAIN ExtractionSteps :
                 e.ev \in {ExtractionSteps[k].full, ExtractionSteps[k].short}
IsSeekOrRead(e) == IsSeek(e) \/ IsRead(e)

\* C14: the seeks and reads of a request alternate, seek first, and the k-th
\* pair is the seek to the k-th offset of 34, 22, 24, 40, 44 followed by the
\* read of the k-th field; after a short read there is no further seek or
\* read and no hand-off, and once the FP_FINISH label is passed the file is
\* closed.
C14_ReadsInOrderShortReadEnds ==
    LET io == SelectSeq(log, IsSeekOrRead)
    IN  /\ Len(io) <= 2 * Len(ExtractionSteps)
        /\ \A k \in DOMAIN ExtractionSteps :
               /\ 2 * k - 1 <= Len(io) =>
                      io[2 * k - 1] = EvArg("fseek", ExtractionSteps[k].offset)
               /\ 2 * k <= Len(io) =>
                      io[2 * k].ev \in {ExtractionSteps[k].full,
                                        ExtractionSteps[k].short}
        /\ \A i \in DOMAIN log :
               log[i].ev \in ShortReads =>
                   /\ \A j \in DOMAIN log :
                          j > i => ~IsSeekOrRead(log[j]) /\ log[j].ev # "output"
                   /\ ~Did("output")
                   /\ pc \in {"FP_FINISH", "TEMPLATE_FINISH", "FINISH", "idle",
                              "speak", "closed"}
                   /\ pc # "FP_FINISH" =>
                          Count("fclose") = 1 /\ audio_fp = "closed"

\* the third read came up short and the request has returned
C14_Witness ==
    /\ pc = "idle"
    /\ Did("read_num_channels")
    /\ Did("read_sample_rate_short")
    /\ Did("fclose")

\* the data length field as it was read from the header
DataByteLength ==
    log[CHOOSE i \in DOMAIN log : log[i].ev = "read_num_samples"].arg

\* C15: with at least one channel and at least 8 bits per sample, the sample
\* count is the data length divided by the channel count and then by the
\* bytes per sample, the read of the sample block follows the seek to 44 and
\* asks for samples * channels * bytes-per-sample bytes, which is at most the
\* data length, and is the data length when that is a multiple of
\* channels * bytes-per-sample.
C15_SampleCountAndRequest ==
    (/\ pc \in {"read_samples", "output", "FP_FINISH", "TEMPLATE_FINISH", "FINISH"}
     /\ Did("read_num_samples")
     /\ track.num_channels >= 1
     /\ track.bits >= 8) =>
        LET d == DataByteLength
            width == track.bits \div 8
            frame == track.num_channels * width
        IN  /\ track.num_samples = (d \div track.num_channels) \div width
            /\ track.samples.state # "null" =>
                   /\ \E i \in DOMAIN log :
                          /\ log[i] = EvArg("fseek", 44)
                          /\ i < Len(log)
                          /\ log[i + 1].ev = "malloc"
                          /\ i + 1 < Len(log)
                          /\ log[i + 2].ev \in {"read_samples", "read_samples_short"}
                   /\ track.samples.req = track.num_samples * frame
                   /\ track.samples.req <= d
                   /\ d % frame = 0 => track.samples.req = d

\* two channels of 16 bits and a data length of 400: 100 samples, 400 bytes
C15_Witness ==
    /\ pc = "output"
    /\ track.num_channels = 2
    /\ track.bits = 16
    /\ DataByteLength = 400
    /\ track.num_samples = 100
    /\ track.samples.req = 400

\* C16: a request allocates the sample buffer at most once and frees it at
\* most once, never before allocating it; the free comes right after the
\* short read of the sample block, with no hand-off, or right after the
\* hand-off; the buffer is allocated and not yet freed only while the
\* hand-off is pending, so it is freed when the request returns.
C16_BufferReleasedOnce ==
    /\ Count("malloc") <= 1
    /\ Count("free_samples") <= Count("malloc")
    /\ \A i \in DOMAIN log :
           log[i].ev = "free_samples" =>
               /\ \E j \in 1..(i - 1) : log[j].ev = "malloc"
               /\ log[i - 1].ev \in {"read_samples_short", "output"}
    /\ Did("read_samples_short") => ~Did("output") /\ Count("free_samples") = 1
    /\ (Did("malloc") /\ pc # "output") => Count("free_samples") = 1
    /\ track.samples.state = "live" <=> (Did("malloc") /\ ~Did("free_samples"))
    /\ Did("malloc") /\ ~Returned => track.samples.state \in {"live", "freed"}

\* the file ended inside the sample block and the request has returned
C16_Witness ==
    /\ pc = "idle"
    /\ Did("read_samples_short")
    /\ Count("malloc") = 1
    /\ Count("free_samples") = 1
    /\ Did("event_end")

\* where e stands in the log
Idx(e) == CHOOSE i \in DOMAIN log : log[i].ev = e

\* e2 is done only after e1
Precedes(e1, e2) == Did(e2) => Did(e1) /\ Idx(e1) < Idx(e2)

ExtractionStarted ==
    Did("fopen") \/ Did("fopen_failed") \/ Did("fseek")

\* the request before has run to its end
RequestEnded ==
    /\ engine = "none"
    /\ audio_fp = "closed"
    /\ tmp_files = 0
    /\ log # << >> => log[Len(log)].ev \in {"event_end", "speak_error"}

\* C17: in a request each of mkstemp, close of its descriptor, popen, fprintf
\* and pclose is done at most once and in this order, the close right after
\* mkstemp; the engine runs from popen to pclose; the output file is opened
\* or read only after a pclose that returned 0, with the engine exited; and
\* a request starts only when the one before has run to its end.
C17_SynthesisOrder ==
    /\ [](/\ \A e \in {"mkstemp", "close_fd", "popen", "fprintf", "pclose"} :
                 Count(e) <= 1
          /\ Did("mkstemp") => Did("close_fd") /\ Idx("close_fd") = Idx("mkstemp") + 1
          /\ Precedes("mkstemp", "close_fd")
          /\ Precedes("close_fd", "popen")
          /\ Precedes("popen", "fprintf")
          /\ Precedes("fprintf", "pclose")
          /\ engine = "running" <=> (Did("popen") /\ ~Did("pclose"))
          /\ ExtractionStarted =>
                 /\ Did("pclose")
                 /\ log[Idx("pclose")] = EvArg("pclose", 0)
                 /\ \A i \in DOMAIN log :
                        log[i].ev \in {"fopen", "fopen_failed", "fseek"} =>
                            Idx("pclose") < i
                 /\ ~Returned => engine = "exited" /\ status = 0)
    /\ [][pc' = "speak" /\ pc # "speak" => pc = "idle" /\ RequestEnded]_vars

\* the engine has exited with status 0 and the output file is open
C17_Witness ==
    /\ pc = "read_bits"
    /\ Did("fopen")
    /\ engine = "exited"
    /\ status = 0
    /\ Idx("mkstemp") < Idx("popen")
    /\ Idx("pclose") < Idx("fopen")

\* C18: after mkstemp has failed the request does nothing but leave by the
\* FINISH label: no command line, no engine, no unlink, no open or read of
\* an output file, no hand-off; it then returns to the host, which can send
\* the next request; the selection, the voice identifier and the resolved
\* voice file stay as they were when mkstemp failed.
C18_TempFileFailure ==
    /\ [](Did("mkstemp_failed") =>
              /\ pc \in {"FINISH", "idle", "closed"}
              /\ \A e \in {"mkstemp", "asprintf", "popen", "popen_failed",
                           "fprintf", "pclose", "unlink", "output"} : ~Did(e)
              /\ ~ExtractionStarted
              /\ engine = "none"
              /\ tmp_files = 0
              /\ audio_fp = "closed"
              /\ pc = "idle" => Did("event_end") /\ ENABLED SetSettings)
    /\ [][Did("mkstemp_failed")' =>
              /\ UNCHANGED <<msg_settings, msg_settings_old,
                             openjtalk_msg_voice_str, openjtalk_msg_language,
                             openjtalk_htsvoice_path>>
              /\ pc = "FINISH" /\ pc' # pc => pc' = "idle"]_vars

\* a request with a resolved voice file has returned after mkstemp failed
C18_Witness ==
    /\ pc = "idle"
    /\ Did("mkstemp_failed")
    /\ Did("event_end")
    /\ openjtalk_htsvoice_path # NoPath

\* what the host sees of a request
IsSignal(e) ==
    e.ev \in {"speak_ok", "speak_error", "event_begin", "output", "event_end"}

Signals == SelectSeq(log, IsSignal)

\* the signals of a request that has returned
FullSignals ==
    {<<Ev("speak_error")>>,
     <<Ev("speak_ok"), Ev("event_begin"), Ev("event_end")>>,
     <<Ev("speak_ok"), Ev("event_begin"), Ev("output"), Ev("event_end")>>}

IsPrefix(s, t) == Len(s) <= Len(t) /\ SubSeq(t, 1, Len(s)) = s

\* C19: the signals of a request that has returned are speak-error alone,
\* or speak-ok, begin, end, or speak-ok, begin, hand-off, end, in this
\* order; while a request runs its signals so far are the start of one of
\* these.
C19_SignalProtocol ==
    /\ \E t \in FullSignals : IsPrefix(Signals, t)
    /\ (pc = "idle" /\ log # << >>) => Signals \in FullSignals
    /\ (Signals # << >> /\ Signals[Len(Signals)].ev \in {"speak_error", "event_end"})
           => pc \in {"idle", "closed"}

\* a request that handed audio over has returned
C19_Witness ==
    /\ pc = "idle"
    /\ Signals = <<Ev("speak_ok"), Ev("event_begin"), Ev("output"), Ev("event_end")>>

\* C20: in every state, with no voice identifier there is no resolved voice
\* file, and a resolved voice file goes with an identifier and is the
\* substituted path, present on disk, of the first template in order whose
\* substituted path for that identifier exists; the identifier and the
\* voice file change only in a parameter update that ran
\* update_htsvoice_path.
C20_PathMatchesIdentifier ==
    /\ [](/\ openjtalk_msg_voice_str = NULL => openjtalk_htsvoice_path = NoPath
          /\ openjtalk_htsvoice_path # NoPath =>
                 /\ openjtalk_msg_voice_str # NULL
                 /\ openjtalk_htsvoice_path \in fs
                 /\ \E i \in DOMAIN voice_search_paths :
                        /\ openjtalk_htsvoice_path =
                               g_string_replace(voice_search_paths[i],
                                                openjtalk_msg_voice_str)
                        /\ \A j \in 1..(i - 1) :
                               g_string_replace(voice_search_paths[j],
                                                openjtalk_msg_voice_str) \notin fs)
    /\ [][(openjtalk_msg_voice_str' # openjtalk_msg_voice_str
           \/ openjtalk_htsvoice_path' # openjtalk_htsvoice_path)
              => pc = "speak" /\ Called("update_htsvoice_path")']_vars

\* an earlier request resolved "mei"; this one changed only the voice name,
\* to one that is not registered
C20_Witness ==
    /\ pc = "check_voice"
    /\ Called("set_synthesis_voice")
    /\ ~Called("set_voice")
    /\ msg_settings.name = "zz"
    /\ openjtalk_msg_voice_str = "mei"
    /\ openjtalk_htsvoice_path = g_string_replace(TA, "mei")

====
